---- MODULE Spec2Model ----
(***************************************************************************)
(* Model of DARAConnectionManager (src/dara_agent_backend.py): a facade    *)
(* holding two session slots (dashboard_conn, cortex_conn) over a remote   *)
(* SQL driver.  Every public method is one action.  The remote driver      *)
(* (snowflake.connector) is the environment: each connect / execute it is  *)
(* asked for either succeeds with some rows or fails with a transport      *)
(* error, chosen nondeterministically.  Text (SQL, questions, tokens) is   *)
(* modelled as sequences of string tokens so that templating and prefix    *)
(* tests are computed, not assumed.                                        *)
(***************************************************************************)
EXTENDS Naturals, Sequences, FiniteSets, TLC

VARIABLES
    dashboard_conn,   \* slot: None or the id of the Dashboard session
    cortex_conn,      \* slot: None or the id of the Assistant session
    sessState,        \* driver side: id -> "unborn" | "open" | "closed"
    sessRole,         \* id -> the role whose connect created it, "none" if unborn
    last,             \* record of the most recent facade call
    thr               \* the two caller threads of the threaded specification

vars == <<dashboard_conn, cortex_conn, sessState, sessRole, last, thr>>

---------------------------------------------------------------------------
(* Bounds of the model *)

MaxSessions == 2
MaxRows == 8
MaxLimit == 5
MaxDataRows == 1
MaxKpiRows == 2

(* Program constants *)

DefaultLimit == 5

None == 0

SessionIds == 1..MaxSessions

---------------------------------------------------------------------------
(* Error names.  The facade raises ConnectionError / ValueError with a     *)
(* message; the names below are the spec's names for those (class,         *)
(* message) pairs.                                                         *)

NotConnected == "NotConnected"
BothConnectionsRequired == "BothConnectionsRequired"
InvalidCredentialFormat == "InvalidCredentialFormat"
UnknownKPI == "UnknownKPI"
KeyLoadError == "KeyLoadError"
ConnectionIsClosed == "DatabaseError: Connection is closed"
JSONDecodeError == "JSONDecodeError"
IndexError == "IndexError"
TypeError == "TypeError"
AttributeError == "AttributeError"

TransportErrors == {"AuthRejected", "NetworkFailure"}

---------------------------------------------------------------------------
(* Text helpers *)

\* a containment test in place of the prefix test
StartsWith_Contains(s, prefix) ==
    \E i \in 0..Len(s) :
        /\ i + Len(prefix) <= Len(s)
        /\ SubSeq(s, i + 1, i + Len(prefix)) = prefix

\* str.startswith
StartsWith(s, prefix) ==
    /\ Len(s) >= Len(prefix)
    /\ SubSeq(s, 1, Len(prefix)) = prefix

\* Python truthiness of an Optional[str]: None and "" are falsy
NoneStr == <<"<None>">>

Truthy(s) == s # NoneStr /\ s # <<>>

PatPrefix == <<"s", "f", "p", "_">>

\* Token values tried for the personal access token
PatSamples ==
    { <<>>,
      <<"s", "f", "p">>,
      <<"s", "f", "p", "_">>,
      <<"s", "f", "p", "_", "a", "b">>,
      <<"a", "b", "c", "1", "2", "3">>,
      <<"x", "s", "f", "p", "_", "a">>,
      <<"S", "F", "P", "_", "a">>,
      <<"s", "f", "p", "-", "a">>,
      <<"_", "p", "f", "s">> }

---------------------------------------------------------------------------
(* The remote driver's answers *)

NoPayload == [wellformed |-> FALSE, choices |-> <<>>]

\* the rows of a result set, in the order the remote ranks them
RemoteRows(n, rev) == [i \in 1..n |-> IF rev THEN n + 1 - i ELSE i]

Fail(e) == [ok |-> FALSE, err |-> e, rows |-> <<>>, payload |-> NoPayload]

Ok(rows, payload) == [ok |-> TRUE, err |-> "none", rows |-> rows, payload |-> payload]

ErrResps == {Fail(e) : e \in TransportErrors}

\* snowflake.connector.connect: a session, or a transport error
ConnectResps == {Ok(<<>>, NoPayload)} \cup ErrResps

\* an ordinary SELECT with up to n rows
RowResps(n) ==
    {Ok(RemoteRows(k, rev), NoPayload) : k \in 0..n, rev \in BOOLEAN} \cup ErrResps

\* JSON text returned by SNOWFLAKE.CORTEX.COMPLETE in column 0 of its one row
Payloads ==
    { [wellformed |-> TRUE, choices |-> << <<"answer">> >>],
      [wellformed |-> TRUE, choices |-> << <<"first">>, <<"second">> >>],
      [wellformed |-> TRUE, choices |-> <<>>],
      [wellformed |-> FALSE, choices |-> <<>>] }

CompletionResps ==
    {Ok(<<>>, NoPayload)} \cup {Ok(<<1>>, p) : p \in Payloads} \cup ErrResps

\* one request the facade made to the driver
Req(sess, kind, stmt, resp) ==
    [sess |-> sess, kind |-> kind, stmt |-> stmt, resp |-> resp]

---------------------------------------------------------------------------
(* What a facade call produced *)

Blank ==
    [outcome |-> "return", error |-> "none", type |-> "none",
     conn |-> None, text |-> <<>>, rows |-> <<>>, flag |-> FALSE,
     requests |-> <<>>, cursorsOpened |-> 0, cursorsClosed |-> 0,
     logged |-> "none"]

Raise(err, reqs, opened, closed) ==
    [Blank EXCEPT !.outcome = "raise", !.error = err, !.requests = reqs,
                  !.cursorsOpened = opened, !.cursorsClosed = closed]

\* the smallest session id the driver has not handed out yet, None if exhausted
NewSession(st) ==
    IF \E i \in SessionIds : st[i] = "unborn"
    THEN CHOOSE i \in SessionIds :
             /\ st[i] = "unborn"
             /\ \A j \in SessionIds : st[j] = "unborn" => i <= j
    ELSE None

---------------------------------------------------------------------------
(* Driver calls made by the facade *)

\* conn.cursor(): None has no cursor(); the driver refuses a closed connection
CursorError(conn, st) ==
    IF conn = None THEN AttributeError
    ELSE IF st[conn] # "open" THEN ConnectionIsClosed
    ELSE "none"

\* the failure caught and turned into an empty result
ExecuteFailed_Swallowed(resp, reqs, opened, closed) ==
    [Blank EXCEPT !.requests = reqs, !.cursorsOpened = opened, !.cursorsClosed = opened]

\* an exception raised by the driver while a statement runs leaves the method
\* at once: the cursor opened for it is not closed and nothing is re-issued
ExecuteFailed(resp, reqs, opened, closed) ==
    Raise(resp.err, reqs, opened, closed)

\* snowflake.connector.connect raised: the assignment to the slot never happens
ConnectFailed(resp, reqs) ==
    Raise(resp.err, reqs, 0, 0)

Connected(newId, reqs) ==
    [Blank EXCEPT !.type = "conn", !.conn = newId, !.requests = reqs]

ConnectStmt(auth) == <<"connect", auth>>

\* the one network attempt of a connect; a session exists only if it succeeded
ConnectReq(newId, auth, resp) ==
    Req(IF resp.ok THEN newId ELSE None, "connect", ConnectStmt(auth), resp)

---------------------------------------------------------------------------
(* connect_dashboard_sso *)

Authenticators == {"externalbrowser", "https://idp.okta.com"}

connect_dashboard_sso(authenticator, resp, newId) ==
    LET reqs == <<ConnectReq(newId, authenticator, resp)>>
    IN  IF resp.ok THEN Connected(newId, reqs) ELSE ConnectFailed(resp, reqs)

(* connect_dashboard_keypair *)

KeyFiles == {"missing", "malformed", "plain", "encrypted"}

KeyPass == <<"secret">>

Passphrases == {NoneStr, <<>>, KeyPass, <<"wrong">>}

\* open(path) + load_pem_private_key(data, password): TRUE iff a key comes out
LoadPrivateKey(keyfile, passphrase) ==
    LET password == IF Truthy(passphrase) THEN passphrase ELSE NoneStr
    IN  CASE keyfile = "plain" -> password = NoneStr
          [] keyfile = "encrypted" -> password = KeyPass
          [] OTHER -> FALSE

connect_dashboard_keypair(keyfile, passphrase, resp, newId) ==
    LET reqs == <<ConnectReq(newId, "private_key", resp)>>
    IN  IF ~LoadPrivateKey(keyfile, passphrase) THEN Raise(KeyLoadError, <<>>, 0, 0)
        ELSE IF resp.ok THEN Connected(newId, reqs)
        ELSE ConnectFailed(resp, reqs)

(* connect_cortex_pat *)

connect_cortex_pat(pat, resp, newId) ==
    LET reqs == <<ConnectReq(newId, "snowflake_jwt", resp)>>
    IN  IF ~StartsWith(pat, PatPrefix) THEN Raise(InvalidCredentialFormat, <<>>, 0, 0)
        ELSE IF resp.ok THEN Connected(newId, reqs)
        ELSE ConnectFailed(resp, reqs)

---------------------------------------------------------------------------
(* get_dashboard_kpi *)

queries ==
    [n \in {"delinquency", "portfolio_overview"} |->
        <<"SELECT", n, "FROM loan_portfolio WHERE status = 'ACTIVE'">>]

KpiNames == {"delinquency", "portfolio_overview", "nonexistent_kpi", "Delinquency", ""}

\* a lookup that falls back to a default template
KpiLookup_Default(kpi_name) ==
    IF kpi_name \in DOMAIN queries THEN queries[kpi_name]
    ELSE queries["portfolio_overview"]

\* queries.get(kpi_name)
KpiLookup(kpi_name) ==
    IF kpi_name \in DOMAIN queries THEN queries[kpi_name] ELSE NoneStr

\* the guard of line 194 left out
DashboardMissing_NoGuard(dc) == FALSE

\* `if not self.dashboard_conn`
DashboardMissing(dc) == dc = None

\* `if not self.cortex_conn`
CortexMissing(cc) == cc = None

\* the last row of the result set in place of fetchone()'s first
FirstRowMapping_Last(rows) == IF rows = <<>> THEN <<>> ELSE <<rows[Len(rows)]>>

\* dict(result) if result else {}
FirstRowMapping(rows) == IF rows = <<>> THEN <<>> ELSE <<Head(rows)>>

get_dashboard_kpi(dc, st, kpi_name, resp) ==
    LET query == KpiLookup(kpi_name)
        reqs == <<Req(dc, "execute", query, resp)>>
    IN  IF DashboardMissing(dc) THEN Raise(NotConnected, <<>>, 0, 0)
        ELSE IF CursorError(dc, st) # "none" THEN Raise(CursorError(dc, st), <<>>, 0, 0)
        ELSE IF ~Truthy(query) THEN Raise(UnknownKPI, <<>>, 1, 0)
        ELSE IF ~resp.ok THEN ExecuteFailed(resp, reqs, 1, 0)
        ELSE [Blank EXCEPT !.type = "mapping", !.rows = FirstRowMapping(resp.rows),
                           !.requests = reqs, !.cursorsOpened = 1, !.cursorsClosed = 1]

---------------------------------------------------------------------------
(* query_cortex *)

DefaultPersona == <<"You are DARA Agent, an AI assistant for mortgage servicing analytics.">>

Fallback == <<"I couldn't generate a response. Please try again.">>

Questions == { <<"how", "many", "loans">>, <<"it", "'", "s">> }

Models == {"snowflake-arctic", "mistral-large"}

Contexts == {NoneStr, <<>>, <<"custom", "persona">>}

\* the f-string of lines 270-278: the values are pasted between quotes as they are
CompleteSql(model, system_prompt, user_question) ==
    <<"SELECT SNOWFLAKE.CORTEX.COMPLETE('", model, "', 'system', '">>
        \o system_prompt \o <<"', 'user', '">> \o user_question \o <<"')">>

\* an empty completion treated as an error
NoResponse_Raises(reqs) == Raise("NoResponse", reqs, 1, 1)

\* an empty completion asked for a second time before giving up
NoResponse_Retried(reqs) ==
    [Blank EXCEPT !.type = "text", !.text = Fallback, !.requests = reqs \o reqs,
                  !.cursorsOpened = 1, !.cursorsClosed = 1]

\* `return "I couldn't generate a response. Please try again."`
NoResponse(reqs) ==
    [Blank EXCEPT !.type = "text", !.text = Fallback, !.requests = reqs,
                  !.cursorsOpened = 1, !.cursorsClosed = 1]

\* json.loads(result[0])['choices'][0]['messages']
ParseCompletion(payload, reqs) ==
    IF ~payload.wellformed THEN Raise(JSONDecodeError, reqs, 1, 1)
    ELSE IF payload.choices = <<>> THEN Raise(IndexError, reqs, 1, 1)
    ELSE [Blank EXCEPT !.type = "text", !.text = payload.choices[1],
                       !.requests = reqs, !.cursorsOpened = 1, !.cursorsClosed = 1]

query_cortex(cc, st, user_question, model, context, resp) ==
    LET system_prompt == IF Truthy(context) THEN context ELSE DefaultPersona
        query == CompleteSql(model, system_prompt, user_question)
        reqs == <<Req(cc, "execute", query, resp)>>
    IN  IF CortexMissing(cc) THEN Raise(NotConnected, <<>>, 0, 0)
        ELSE IF CursorError(cc, st) # "none" THEN Raise(CursorError(cc, st), <<>>, 0, 0)
        ELSE IF ~resp.ok THEN ExecuteFailed(resp, reqs, 1, 0)
        ELSE IF resp.rows = <<>> THEN NoResponse(reqs)
        ELSE ParseCompletion(resp.payload, reqs)

---------------------------------------------------------------------------
(* query_cortex_with_data *)

DataQueries == {NoneStr, <<>>, <<"SELECT * FROM delinquency_summary LIMIT 10">>}

\* `and` in place of `or`
EitherMissing_And(dc, cc) == DashboardMissing(dc) /\ CortexMissing(cc)

\* `if not self.dashboard_conn or not self.cortex_conn`
EitherMissing(dc, cc) == DashboardMissing(dc) \/ CortexMissing(cc)

\* json.dumps(data, indent=2, default=str)
JsonDumps(rows) == <<"[">> \o [i \in 1..Len(rows) |-> ToString(rows[i])] \o <<"]">>

DataContext(rows) == <<"\n\nHere is the relevant data:\n">> \o JsonDumps(rows)

\* the completion asked for before the data it is to be given
WithContext_CompletionFirst(cc, st, user_question, model, data_context, dreqs, dcur, cresp) ==
    LET inner == query_cortex(cc, st, user_question \o data_context, model, NoneStr, cresp)
    IN  [inner EXCEPT !.requests = inner.requests \o dreqs,
                      !.cursorsOpened = dcur + inner.cursorsOpened,
                      !.cursorsClosed = dcur + inner.cursorsClosed]

\* the rest of the method once the data context is known: delegate to query_cortex
WithContext(cc, st, user_question, model, data_context, dreqs, dcur, cresp) ==
    LET inner == query_cortex(cc, st, user_question \o data_context, model, NoneStr, cresp)
    IN  [inner EXCEPT !.requests = dreqs \o inner.requests,
                      !.cursorsOpened = dcur + inner.cursorsOpened,
                      !.cursorsClosed = dcur + inner.cursorsClosed]

query_cortex_with_data(dc, cc, st, user_question, model, data_query, dresp, cresp) ==
    LET dreqs == <<Req(dc, "execute", data_query, dresp)>>
    IN  IF EitherMissing(dc, cc) THEN Raise(BothConnectionsRequired, <<>>, 0, 0)
        ELSE IF ~Truthy(data_query)
        THEN WithContext(cc, st, user_question, model, <<>>, <<>>, 0, cresp)
        ELSE IF CursorError(dc, st) # "none" THEN Raise(CursorError(dc, st), <<>>, 0, 0)
        ELSE IF ~dresp.ok THEN ExecuteFailed(dresp, dreqs, 1, 0)
        ELSE WithContext(cc, st, user_question, model, DataContext(dresp.rows),
                         dreqs, 1, cresp)

---------------------------------------------------------------------------
(* cortex_search *)

Services == {"servicing_docs"}

SearchQueries == { <<"foreclosure", "process">> }

ColumnLists == { <<"title", "content", "score">> }

\* values tried for `limit`, its default among them
Limits == (0..MaxLimit) \cup {DefaultLimit}

\* ', '.join(columns)
RECURSIVE Join(_)
Join(columns) ==
    IF Len(columns) = 0 THEN <<>>
    ELSE IF Len(columns) = 1 THEN <<columns[1]>>
    ELSE <<columns[1], ", ">> \o Join(Tail(columns))

\* the f-string of lines 363-371
SearchSql(search_service, query, columns, limit) ==
    <<"SELECT ">> \o Join(columns) \o <<" FROM TABLE(", search_service, ".SEARCH('">>
        \o query \o <<"', LIMIT => ", ToString(limit), "))">>

\* [dict(row) for row in results]
RowDicts(results) == [i \in 1..Len(results) |-> results[i]]

cortex_search(cc, st, search_service, query, columns, limit, resp) ==
    LET query_sql == SearchSql(search_service, query, columns, limit)
        reqs == <<Req(cc, "execute", query_sql, resp)>>
    IN  IF CortexMissing(cc) THEN Raise(NotConnected, <<>>, 0, 0)
        ELSE IF CursorError(cc, st) # "none" THEN Raise(CursorError(cc, st), <<>>, 0, 0)
        ELSE IF ~resp.ok THEN ExecuteFailed(resp, reqs, 1, 0)
        ELSE [Blank EXCEPT !.type = "list", !.rows = RowDicts(resp.rows),
                           !.requests = reqs, !.cursorsOpened = 1, !.cursorsClosed = 1]

---------------------------------------------------------------------------
(* close_all *)

\* close() called without the `if conn` test
CloseConn_NoGuard(conn, st) ==
    IF conn = None
    THEN [st |-> st, reqs |-> <<>>, error |-> AttributeError]
    ELSE [st |-> [st EXCEPT ![conn] = "closed"],
          reqs |-> <<Req(conn, "close", <<"close">>, Ok(<<>>, NoPayload))>>,
          error |-> "none"]

\* `if conn: conn.close()`; the driver's close() of a closed connection does nothing
CloseConn(conn, st) ==
    IF conn = None
    THEN [st |-> st, reqs |-> <<>>, error |-> "none"]
    ELSE [st |-> [st EXCEPT ![conn] = "closed"],
          reqs |-> <<Req(conn, "close", <<"close">>, Ok(<<>>, NoPayload))>>,
          error |-> "none"]

\* the result, and the sessions as the driver has them afterwards
close_all(dc, cc, st) ==
    LET d == CloseConn(dc, st)
        c == CloseConn(cc, d.st)
    IN  IF d.error # "none"
        THEN [res |-> Raise(d.error, d.reqs, 0, 0), st |-> d.st]
        ELSE IF c.error # "none"
        THEN [res |-> Raise(c.error, d.reqs \o c.reqs, 0, 0), st |-> c.st]
        ELSE [res |-> [Blank EXCEPT !.requests = d.reqs \o c.reqs], st |-> c.st]

(* close_all over a driver whose close() can raise *)

CloseResps == {Ok(<<>>, NoPayload)} \cup ErrResps

\* what a close() that raised left of the session
AfterFailedClose == {"open", "closed"}

\* `if conn: conn.close()` where close() of an open connection may raise
CloseConnEnv(conn, st, resp, after) ==
    IF conn = None \/ st[conn] # "open" \/ resp.ok
    THEN CloseConn(conn, st)
    ELSE [st |-> [st EXCEPT ![conn] = after],
          reqs |-> <<Req(conn, "close", <<"close">>, resp)>>,
          error |-> resp.err]

\* lines 385-391 have no try: an exception from the first close() ends the method
close_all_env(dc, cc, st, dresp, cresp, after) ==
    LET d == CloseConnEnv(dc, st, dresp, after)
        c == CloseConnEnv(cc, d.st, cresp, after)
    IN  IF d.error # "none"
        THEN [res |-> Raise(d.error, d.reqs, 0, 0), st |-> d.st]
        ELSE IF c.error # "none"
        THEN [res |-> Raise(c.error, d.reqs \o c.reqs, 0, 0), st |-> c.st]
        ELSE [res |-> [Blank EXCEPT !.requests = d.reqs \o c.reqs], st |-> c.st]

---------------------------------------------------------------------------
(* test_dashboard_connection, test_cortex_connection *)

IdentitySql == <<"SELECT CURRENT_USER(), CURRENT_ROLE(), CURRENT_WAREHOUSE()">>

CortexIdentitySql == <<"SELECT CURRENT_USER(), CURRENT_ROLE()">>

ModelTestSql == <<"SELECT SNOWFLAKE.CORTEX.COMPLETE('snowflake-arctic', 'Hello') as test">>

TestResult(flag, reqs, opened, closed, logged) ==
    [Blank EXCEPT !.type = "bool", !.flag = flag, !.requests = reqs,
                  !.cursorsOpened = opened, !.cursorsClosed = closed,
                  !.logged = logged]

\* the try/except left out: the error leaves the method
TestFailed_Propagates(err, reqs, opened, closed) ==
    Raise(err, reqs, opened, closed)

\* `except Exception as e: print(...); return False`
TestFailed(err, reqs, opened, closed) ==
    TestResult(FALSE, reqs, opened, closed, err)

\* what running one statement and reading result[0] raises, "none" if nothing
StatementError(resp) ==
    IF ~resp.ok THEN resp.err
    ELSE IF resp.rows = <<>> THEN TypeError
    ELSE "none"

test_dashboard_connection(dc, st, resp) ==
    LET reqs == <<Req(dc, "execute", IdentitySql, resp)>>
    IN  IF DashboardMissing(dc) THEN TestResult(FALSE, <<>>, 0, 0, "none")
        ELSE IF CursorError(dc, st) # "none" THEN TestFailed(CursorError(dc, st), <<>>, 0, 0)
        ELSE IF StatementError(resp) # "none" THEN TestFailed(StatementError(resp), reqs, 1, 0)
        ELSE TestResult(TRUE, reqs, 1, 1, "none")

test_cortex_connection(cc, st, resp1, resp2) ==
    LET req1 == <<Req(cc, "execute", CortexIdentitySql, resp1)>>
        reqs == req1 \o <<Req(cc, "execute", ModelTestSql, resp2)>>
    IN  IF CortexMissing(cc) THEN TestResult(FALSE, <<>>, 0, 0, "none")
        ELSE IF CursorError(cc, st) # "none" THEN TestFailed(CursorError(cc, st), <<>>, 0, 0)
        ELSE IF StatementError(resp1) # "none" THEN TestFailed(StatementError(resp1), req1, 1, 0)
        ELSE IF StatementError(resp2) # "none" THEN TestFailed(StatementError(resp2), reqs, 1, 0)
        ELSE TestResult(TRUE, reqs, 1, 1, "none")

---------------------------------------------------------------------------
(* State machine *)

Pre ==
    [dashboard_conn |-> dashboard_conn, cortex_conn |-> cortex_conn,
     sessState |-> sessState, sessRole |-> sessRole]

\* what `last` remembers of a call: the method, its arguments, the slots and
\* sessions it found, what it did and how it ended
Call(op, args, res) ==
    [op |-> op, args |-> args, res |-> res, pre |-> Pre,
     afterCloseAll |-> (last.op = "close_all")]

\* the facade driven by a single caller: no method is in progress between calls
NoThreads == [idle |-> TRUE]

Init ==
    /\ dashboard_conn = None
    /\ cortex_conn = None
    /\ sessState = [i \in SessionIds |-> "unborn"]
    /\ sessRole = [i \in SessionIds |-> "none"]
    /\ last = [op |-> "init", args |-> [none |-> TRUE], res |-> Blank,
               pre |-> [dashboard_conn |-> None, cortex_conn |-> None,
                        sessState |-> [i \in SessionIds |-> "unborn"],
                        sessRole |-> [i \in SessionIds |-> "none"]],
               afterCloseAll |-> FALSE]
    /\ thr = NoThreads

\* the driver creates the session a successful connect returns
Opened(res) ==
    IF res.outcome = "return"
    THEN [sessState EXCEPT ![res.conn] = "open"]
    ELSE sessState

Owned(res, role) ==
    IF res.outcome = "return"
    THEN [sessRole EXCEPT ![res.conn] = role]
    ELSE sessRole

\* the slot dropped when the connect does not succeed
SlotAfterConnect_Cleared(slot, res) ==
    IF res.outcome = "return" THEN res.conn ELSE None

\* `self.dashboard_conn = snowflake.connector.connect(...)`: the assignment
\* happens only if connect returned
SlotAfterConnect(slot, res) ==
    IF res.outcome = "return" THEN res.conn ELSE slot

ConnectDashboard(op, args, res) ==
    /\ res.outcome = "return" => res.conn # None
    /\ dashboard_conn' = SlotAfterConnect(dashboard_conn, res)
    /\ sessState' = Opened(res)
    /\ sessRole' = Owned(res, "dashboard")
    /\ last' = Call(op, args, res)
    /\ UNCHANGED <<cortex_conn, thr>>

ConnectDashboardSso ==
    \E authenticator \in Authenticators, resp \in ConnectResps :
        ConnectDashboard("connect_dashboard_sso",
                         [authenticator |-> authenticator],
                         connect_dashboard_sso(authenticator, resp, NewSession(sessState)))

ConnectDashboardKeypair ==
    \E keyfile \in KeyFiles, passphrase \in Passphrases, resp \in ConnectResps :
        ConnectDashboard("connect_dashboard_keypair",
                         [keyfile |-> keyfile, passphrase |-> passphrase],
                         connect_dashboard_keypair(keyfile, passphrase, resp,
                                                   NewSession(sessState)))

ConnectCortexPat ==
    \E pat \in PatSamples, resp \in ConnectResps :
        LET res == connect_cortex_pat(pat, resp, NewSession(sessState))
        IN  /\ res.outcome = "return" => res.conn # None
            /\ cortex_conn' = SlotAfterConnect(cortex_conn, res)
            /\ sessState' = Opened(res)
            /\ sessRole' = Owned(res, "cortex")
            /\ last' = Call("connect_cortex_pat", [pat |-> pat], res)
            /\ UNCHANGED <<dashboard_conn, thr>>

\* a call that only reads the slots
Query(op, args, res) ==
    /\ last' = Call(op, args, res)
    /\ UNCHANGED <<dashboard_conn, cortex_conn, sessState, sessRole, thr>>

GetDashboardKpi ==
    \E kpi_name \in KpiNames, resp \in RowResps(MaxKpiRows) :
        Query("get_dashboard_kpi", [kpi_name |-> kpi_name],
              get_dashboard_kpi(dashboard_conn, sessState, kpi_name, resp))

QueryCortex ==
    \E user_question \in Questions, model \in Models, context \in Contexts,
       resp \in CompletionResps :
        Query("query_cortex",
              [user_question |-> user_question, model |-> model, context |-> context],
              query_cortex(cortex_conn, sessState, user_question, model, context, resp))

QueryCortexWithData ==
    \E user_question \in Questions, model \in Models, data_query \in DataQueries,
       dresp \in RowResps(MaxDataRows), cresp \in CompletionResps :
        Query("query_cortex_with_data",
              [user_question |-> user_question, model |-> model,
               data_query |-> data_query],
              query_cortex_with_data(dashboard_conn, cortex_conn, sessState,
                                     user_question, model, data_query, dresp, cresp))

CortexSearch ==
    \E search_service \in Services, query \in SearchQueries,
       columns \in ColumnLists, limit \in Limits, resp \in RowResps(MaxRows) :
        Query("cortex_search",
              [search_service |-> search_service, query |-> query,
               columns |-> columns, limit |-> limit],
              cortex_search(cortex_conn, sessState, search_service, query, columns,
                            limit, resp))

CloseAll ==
    LET r == close_all(dashboard_conn, cortex_conn, sessState)
    IN  /\ sessState' = r.st
        /\ last' = Call("close_all", [none |-> TRUE], r.res)
        /\ UNCHANGED <<dashboard_conn, cortex_conn, sessRole, thr>>

TestDashboardConnection ==
    \E resp \in RowResps(1) :
        Query("test_dashboard_connection", [none |-> TRUE],
              test_dashboard_connection(dashboard_conn, sessState, resp))

TestCortexConnection ==
    \E resp1 \in RowResps(1), resp2 \in RowResps(1) :
        Query("test_cortex_connection", [none |-> TRUE],
              test_cortex_connection(cortex_conn, sessState, resp1, resp2))

\* close_all when the driver's close() fails for at least one of the sessions
CloseAllDriverFails ==
    \E dresp \in CloseResps, cresp \in CloseResps, after \in AfterFailedClose :
        LET r == close_all_env(dashboard_conn, cortex_conn, sessState, dresp, cresp, after)
        IN  /\ r.res.outcome = "raise"
            /\ sessState' = r.st
            /\ last' = Call("close_all", [none |-> TRUE], r.res)
            /\ UNCHANGED <<dashboard_conn, cortex_conn, sessRole, thr>>

Next ==
    \/ ConnectDashboardSso
    \/ ConnectDashboardKeypair
    \/ ConnectCortexPat
    \/ GetDashboardKpi
    \/ QueryCortex
    \/ QueryCortexWithData
    \/ CortexSearch
    \/ CloseAll
    \/ TestDashboardConnection
    \/ TestCortexConnection

Spec == Init /\ [][Next]_vars

\* the facade over a driver whose close() may raise
NextCloseFail == Next \/ CloseAllDriverFails

SpecCloseFail == Init /\ [][NextCloseFail]_vars

---------------------------------------------------------------------------
(* Two caller threads: thread "D" runs one method that uses only the        *)
(* Dashboard slot, thread "A" one that uses only the Assistant slot.  A     *)
(* step of a thread is one access to the shared facade (a read of its slot  *)
(* by the guard, the second read by `.cursor()`, the driver's connect, the  *)
(* assignment to the slot); what a method does on its own cursor after      *)
(* that touches nothing shared and is one step.                             *)

Threads == {"D", "A"}

Other(t) == IF t = "D" THEN "A" ELSE "D"

\* sessions of the threaded specification: the ones the slots may hold at the
\* start, and the ones a connect of each thread creates
Sid == [d_old |-> 1, a_old |-> 2, d_new |-> 3, a_new |-> 4]

ThreadSessionIds == {Sid.d_old, Sid.a_old, Sid.d_new, Sid.a_new}

NewId(t) == IF t = "D" THEN Sid.d_new ELSE Sid.a_new

RoleOf(t) == IF t = "D" THEN "dashboard" ELSE "cortex"

\* a method call with its arguments and the driver's answers to it
Desc(op, name, txt, limit, r1, r2) ==
    [op |-> op, name |-> name, txt |-> txt, limit |-> limit, r1 |-> r1, r2 |-> r2]

NoResp == Ok(<<>>, NoPayload)

DashboardCalls ==
    {Desc("connect_dashboard_sso", "externalbrowser", <<>>, 0, r, NoResp) :
        r \in ConnectResps}
    \cup {Desc("connect_dashboard_keypair", k, NoneStr, 0, r, NoResp) :
        k \in {"plain", "missing"}, r \in ConnectResps}
    \cup {Desc("get_dashboard_kpi", n, <<>>, 0, r, NoResp) :
        n \in {"delinquency", "nonexistent_kpi"}, r \in RowResps(1)}
    \cup {Desc("test_dashboard_connection", "", <<>>, 0, r, NoResp) : r \in RowResps(1)}

AssistantCalls ==
    {Desc("connect_cortex_pat", "", p, 0, r, NoResp) :
        p \in { <<"s", "f", "p", "_", "a", "b">>, <<"a", "b", "c", "1", "2", "3">> },
        r \in ConnectResps}
    \cup {Desc("query_cortex", "", c, 0, r, NoResp) :
        c \in {NoneStr, <<"custom", "persona">>}, r \in CompletionResps}
    \cup {Desc("cortex_search", "", <<>>, DefaultLimit, r, NoResp) : r \in RowResps(1)}
    \cup {Desc("test_cortex_connection", "", <<>>, 0, r1, r2) :
        r1 \in RowResps(1), r2 \in RowResps(1)}

ThreadQuestion == <<"how", "many", "loans">>

\* the method of call d, run on the connection `conn` with the sessions `st`
RunMethod(d, conn, st, newId) ==
    CASE d.op = "connect_dashboard_sso" -> connect_dashboard_sso(d.name, d.r1, newId)
      [] d.op = "connect_dashboard_keypair" ->
             connect_dashboard_keypair(d.name, d.txt, d.r1, newId)
      [] d.op = "connect_cortex_pat" -> connect_cortex_pat(d.txt, d.r1, newId)
      [] d.op = "get_dashboard_kpi" -> get_dashboard_kpi(conn, st, d.name, d.r1)
      [] d.op = "query_cortex" ->
             query_cortex(conn, st, ThreadQuestion, "snowflake-arctic", d.txt, d.r1)
      [] d.op = "cortex_search" ->
             cortex_search(conn, st, "servicing_docs", <<"foreclosure", "process">>,
                           <<"title", "content", "score">>, d.limit, d.r1)
      [] d.op = "test_dashboard_connection" -> test_dashboard_connection(conn, st, d.r1)
      [] d.op = "test_cortex_connection" -> test_cortex_connection(conn, st, d.r1, d.r2)

IsConnect(d) ==
    d.op \in {"connect_dashboard_sso", "connect_dashboard_keypair", "connect_cortex_pat"}

\* the slot a thread's method reads: self.dashboard_conn or self.cortex_conn
ReadSlot(t) == IF t = "D" THEN dashboard_conn ELSE cortex_conn

\* connect_cortex_pat assigning to self.dashboard_conn, as a copied method body would
SlotsAfterAssign_OneSlot(t, conn) ==
    [dashboard_conn |-> conn, cortex_conn |-> cortex_conn]

\* the two slots after thread t's connect method assigned `conn` to its own
SlotsAfterAssign(t, conn) ==
    [dashboard_conn |-> IF t = "D" THEN conn ELSE dashboard_conn,
     cortex_conn |-> IF t = "A" THEN conn ELSE cortex_conn]

\* slot contents the facade can be in when the two threads start
StartSlots ==
    {[dc |-> dc, cc |-> cc, st |-> [i \in ThreadSessionIds |->
                                      IF i = Sid.d_old THEN ds
                                      ELSE IF i = Sid.a_old THEN as
                                      ELSE "unborn"]] :
        dc \in {None, Sid.d_old}, cc \in {None, Sid.a_old},
        ds \in {"open", "closed"}, as \in {"open", "closed"}}

Fresh(d) == [d |-> d, pc |-> "start", conn |-> None, res |-> Blank]

InitThreads ==
    \E s \in StartSlots, d \in DashboardCalls, a \in AssistantCalls :
        /\ dashboard_conn = s.dc
        /\ cortex_conn = s.cc
        /\ sessState = s.st
        /\ sessRole = [i \in ThreadSessionIds |->
                          IF i = Sid.d_old THEN "dashboard"
                          ELSE IF i = Sid.a_old THEN "cortex" ELSE "none"]
        /\ last = [op |-> "init", args |-> [none |-> TRUE], res |-> Blank,
                   pre |-> [dashboard_conn |-> s.dc, cortex_conn |-> s.cc,
                            sessState |-> s.st, sessRole |-> s.st],
                   afterCloseAll |-> FALSE]
        /\ thr = [s0 |-> s, D |-> Fresh(d), A |-> Fresh(a), interleaved |-> FALSE]

\* thread t moves to pc with its local connection and result; the step counts
\* as interleaved when the other thread is in the middle of its method
Step(t, pc, conn, res) ==
    thr' = [thr EXCEPT ![t].pc = pc, ![t].conn = conn, ![t].res = res,
                       !.interleaved =
                           @ \/ thr[Other(t)].pc \notin {"start", "done"}]

Finish(t, conn) ==
    Step(t, "done", conn, RunMethod(thr[t].d, conn, sessState, NewId(t)))

\* the guard `if not self.<slot>` of a query or test method
TGuard(t) ==
    /\ thr[t].pc = "start"
    /\ ~IsConnect(thr[t].d)
    /\ IF ReadSlot(t) = None
       THEN Finish(t, None)
       ELSE Step(t, "cursor", None, Blank)
    /\ UNCHANGED <<dashboard_conn, cortex_conn, sessState, sessRole, last>>

\* `self.<slot>.cursor()`: the slot is read again and the driver asked for a cursor
TCursor(t) ==
    /\ thr[t].pc = "cursor"
    /\ IF CursorError(ReadSlot(t), sessState) # "none"
       THEN Finish(t, ReadSlot(t))
       ELSE Step(t, "execute", ReadSlot(t), Blank)
    /\ UNCHANGED <<dashboard_conn, cortex_conn, sessState, sessRole, last>>

\* the statements run on the method's own cursor, and the return
TExecute(t) ==
    /\ thr[t].pc = "execute"
    /\ Finish(t, thr[t].conn)
    /\ UNCHANGED <<dashboard_conn, cortex_conn, sessState, sessRole, last>>

\* a connect method up to snowflake.connector.connect(...) returning or raising
TConnect(t) ==
    /\ thr[t].pc = "start"
    /\ IsConnect(thr[t].d)
    /\ LET res == RunMethod(thr[t].d, None, sessState, NewId(t))
       IN  IF res.outcome = "raise"
           THEN /\ Step(t, "done", None, res)
                /\ UNCHANGED <<sessState, sessRole>>
           ELSE /\ Step(t, "assign", res.conn, res)
                /\ sessState' = [sessState EXCEPT ![res.conn] = "open"]
                /\ sessRole' = [sessRole EXCEPT ![res.conn] = RoleOf(t)]
    /\ UNCHANGED <<dashboard_conn, cortex_conn, last>>

\* the assignment of the new connection to the slot, and the return
TAssign(t) ==
    /\ thr[t].pc = "assign"
    /\ dashboard_conn' = SlotsAfterAssign(t, thr[t].conn).dashboard_conn
    /\ cortex_conn' = SlotsAfterAssign(t, thr[t].conn).cortex_conn
    /\ Step(t, "done", thr[t].conn, thr[t].res)
    /\ UNCHANGED <<sessState, sessRole, last>>

NextThreads ==
    \E t \in Threads :
        \/ TGuard(t)
        \/ TCursor(t)
        \/ TExecute(t)
        \/ TConnect(t)
        \/ TAssign(t)

SpecThreads == InitThreads /\ [][NextThreads]_vars

---------------------------------------------------------------------------
(* Vocabulary of the properties *)

QueryOps ==
    {"get_dashboard_kpi", "query_cortex", "query_cortex_with_data", "cortex_search"}

TestOps == {"test_dashboard_connection", "test_cortex_connection"}

ConnectOps == {"connect_dashboard_sso", "connect_dashboard_keypair", "connect_cortex_pat"}

R == last.res

Raised(err) == R.outcome = "raise" /\ R.error = err

\* statements the call had the driver execute
Executed == {i \in 1..Len(R.requests) : R.requests[i].kind = "execute"}

\* the slot held a session that close_all had closed when the call began
WasClosed(slot) == slot # None /\ last.pre.sessState[slot] = "closed"

WasOpen(slot) == slot # None /\ last.pre.sessState[slot] = "open"

\* no connect for the role had succeeded when the call began
NeverConnected(role) == \A i \in SessionIds : last.pre.sessRole[i] # role

\* the sessions the call needs, by method
UsedClosed ==
    CASE last.op = "get_dashboard_kpi" -> WasClosed(last.pre.dashboard_conn)
      [] last.op \in {"query_cortex", "cortex_search"} -> WasClosed(last.pre.cortex_conn)
      [] last.op = "query_cortex_with_data" ->
             WasClosed(last.pre.dashboard_conn) \/ WasClosed(last.pre.cortex_conn)
      [] OTHER -> FALSE

HasSfpPrefix(pat) ==
    /\ Len(pat) >= 4
    /\ pat[1] = "s" /\ pat[2] = "f" /\ pat[3] = "p" /\ pat[4] = "_"

Registry == {"delinquency", "portfolio_overview"}

SlotsUnchanged ==
    /\ dashboard_conn = last.pre.dashboard_conn
    /\ cortex_conn = last.pre.cortex_conn
    /\ sessState = last.pre.sessState

---------------------------------------------------------------------------
(* C1: a query operation executes a statement on a Session only while that  *)
(* Session is open (its connect succeeded, close_all has not run since),    *)
(* and a query operation invoked on a Session that close_all has closed     *)
(* fails with NotConnected / BothConnectionsRequired, submitting nothing.   *)
C1_QueryOnlyWhileConnected ==
    last.op \in QueryOps =>
        /\ \A i \in Executed :
               /\ R.requests[i].sess # None
               /\ last.pre.sessState[R.requests[i].sess] = "open"
        /\ UsedClosed =>
               /\ R.outcome = "raise"
               /\ R.error \in {NotConnected, BothConnectionsRequired}
               /\ R.requests = <<>>

(* C2: connect_cortex_pat with a PAT that does not begin with 'sfp_' fails  *)
(* with InvalidCredentialFormat, makes no connection attempt and leaves     *)
(* the slots alone; with a PAT that begins with 'sfp_' it makes exactly     *)
(* one connection attempt.                                                  *)
C2_PatPrefixGate ==
    last.op = "connect_cortex_pat" =>
        IF HasSfpPrefix(last.args.pat)
        THEN /\ Len(R.requests) = 1
             /\ R.requests[1].kind = "connect"
             /\ R.error # InvalidCredentialFormat
        ELSE /\ Raised(InvalidCredentialFormat)
             /\ R.requests = <<>>
             /\ SlotsUnchanged

C2_Witness ==
    /\ last.op = "connect_cortex_pat"
    /\ ~HasSfpPrefix(last.args.pat)
    /\ Len(last.args.pat) >= 5
    /\ Raised(InvalidCredentialFormat)

(* C3: get_dashboard_kpi called when no Dashboard connect has succeeded     *)
(* fails with NotConnected and executes nothing, for every KPI name and     *)
(* every state of the Assistant Session.                                    *)
C3_KpiNotConnected ==
    (last.op = "get_dashboard_kpi" /\ NeverConnected("dashboard")) =>
        /\ Raised(NotConnected)
        /\ R.requests = <<>>

C3_Witness ==
    /\ last.op = "get_dashboard_kpi"
    /\ NeverConnected("dashboard")
    /\ last.args.kpi_name = "portfolio_overview"
    /\ WasOpen(last.pre.cortex_conn)
    /\ Raised(NotConnected)

(* C4: get_dashboard_kpi with a name outside the registry, the Dashboard    *)
(* Session being connected, fails with UnknownKPI and executes no           *)
(* statement.                                                              *)
C4_UnknownKpi ==
    (/\ last.op = "get_dashboard_kpi"
     /\ WasOpen(last.pre.dashboard_conn)
     /\ last.args.kpi_name \notin Registry) =>
        /\ Raised(UnknownKPI)
        /\ R.requests = <<>>

C4_Witness ==
    /\ last.op = "get_dashboard_kpi"
    /\ WasOpen(last.pre.dashboard_conn)
    /\ last.args.kpi_name = "nonexistent_kpi"
    /\ Raised(UnknownKPI)

(* C5: query_cortex_with_data with at least one slot absent fails with      *)
(* BothConnectionsRequired for every data_query and executes nothing.       *)
C5_BothRequired ==
    (/\ last.op = "query_cortex_with_data"
     /\ (last.pre.dashboard_conn = None \/ last.pre.cortex_conn = None)) =>
        /\ Raised(BothConnectionsRequired)
        /\ R.requests = <<>>

C5_Witness ==
    /\ last.op = "query_cortex_with_data"
    /\ last.pre.dashboard_conn = None
    /\ WasOpen(last.pre.cortex_conn)
    /\ Truthy(last.args.data_query)
    /\ Raised(BothConnectionsRequired)

Min(a, b) == IF a <= b THEN a ELSE b

\* the rows the remote returned to the call's only statement
RemoteReturned == R.requests[1].resp.rows

(* C6: cortex_search returns no more than `limit` records, whatever the     *)
(* number of rows the remote returns: the first `limit` of them, in the     *)
(* remote's order (limit 5 and 8 remote rows give exactly 5 records).       *)
C6_SearchCappedAtLimit ==
    (last.op = "cortex_search" /\ R.outcome = "return") =>
        /\ Len(R.rows) <= last.args.limit
        /\ R.rows = SubSeq(RemoteReturned, 1, Min(last.args.limit, Len(RemoteReturned)))

\* the remote answered the call's one statement without error and with no row
EmptyCompletion ==
    /\ Len(R.requests) = 1
    /\ R.requests[1].kind = "execute"
    /\ R.requests[1].resp.ok
    /\ R.requests[1].resp.rows = <<>>

(* C7: query_cortex on a connected Assistant Session returns the literal    *)
(* fallback string, as a normal result, whenever the completion statement   *)
(* succeeds with zero rows, for every question, model and context.          *)
C7_FallbackOnNoRow ==
    (/\ last.op = "query_cortex"
     /\ WasOpen(last.pre.cortex_conn)
     /\ EmptyCompletion) =>
        /\ R.outcome = "return"
        /\ R.type = "text"
        /\ R.text = <<"I couldn't generate a response. Please try again.">>

C7_Witness ==
    /\ last.op = "query_cortex"
    /\ WasOpen(last.pre.cortex_conn)
    /\ EmptyCompletion
    /\ last.args.context = NoneStr
    /\ R.outcome = "return"

\* the slots that held a session when the call began
HeldSlots == {last.pre.dashboard_conn, last.pre.cortex_conn} \ {None}

(* C8: a close_all issued directly after a close_all returns without error  *)
(* and leaves slots and sessions as the first left them; close_all calls    *)
(* close only on sessions a slot holds, so an absent Session gets no call.  *)
C8_CloseAllIdempotent ==
    last.op = "close_all" =>
        /\ \A i \in 1..Len(R.requests) :
               /\ R.requests[i].kind = "close"
               /\ R.requests[i].sess \in HeldSlots
        /\ last.afterCloseAll =>
               /\ R.outcome = "return"
               /\ SlotsUnchanged

C8_Witness ==
    /\ last.op = "close_all"
    /\ last.afterCloseAll
    /\ WasClosed(last.pre.dashboard_conn)
    /\ last.pre.cortex_conn = None
    /\ R.outcome = "return"

(* C9: test_dashboard_connection and test_cortex_connection always return   *)
(* a boolean, never an error: false whenever a statement they issued        *)
(* failed or the Session is absent or closed, true only when they issued    *)
(* statements and every one succeeded.                                      *)
C9_TestNeverRaises ==
    last.op \in TestOps =>
        /\ R.outcome = "return"
        /\ R.type = "bool"
        /\ (\E i \in 1..Len(R.requests) : ~R.requests[i].resp.ok) => ~R.flag
        /\ R.flag =>
               /\ R.requests # <<>>
               /\ \A i \in 1..Len(R.requests) : R.requests[i].resp.ok

C9_Witness ==
    /\ last.op = "test_cortex_connection"
    /\ WasOpen(last.pre.cortex_conn)
    /\ Len(R.requests) = 2
    /\ ~R.requests[2].resp.ok
    /\ R.outcome = "return"
    /\ ~R.flag

(* C10: in connect, get_dashboard_kpi, query_cortex, query_cortex_with_data *)
(* and cortex_search a failed remote call ends the operation with that      *)
(* very error: nothing is issued after it, the failed statement is not      *)
(* issued again, and the operation does not return normally.                *)
C10_TransportErrorPropagates ==
    last.op \in (ConnectOps \cup QueryOps) =>
        \A i \in 1..Len(R.requests) :
            ~R.requests[i].resp.ok =>
                /\ R.outcome = "raise"
                /\ R.error = R.requests[i].resp.err
                /\ i = Len(R.requests)
                /\ \A j \in 1..Len(R.requests) :
                       R.requests[j].stmt = R.requests[i].stmt => j = i

C10_Witness ==
    /\ last.op = "query_cortex_with_data"
    /\ Len(R.requests) = 2
    /\ R.requests[1].resp.ok
    /\ ~R.requests[2].resp.ok
    /\ Raised("NetworkFailure")

---------------------------------------------------------------------------
\* every method but close_all
RoundTripOps == ConnectOps \cup QueryOps \cup TestOps

\* the call gave its caller what it was asked for: a session, a result, True
Succeeded ==
    /\ R.outcome = "return"
    /\ last.op \in TestOps => R.flag

\* the two methods that run two statements
TwoStatements ==
    \/ last.op = "test_cortex_connection"
    \/ last.op = "query_cortex_with_data" /\ Truthy(last.args.data_query)

(* C11 as stated: an operation that goes to the remote service does so      *)
(* exactly once between its invocation and its return.                      *)
C11_OneRoundTrip ==
    (last.op \in RoundTripOps /\ Succeeded) => Len(R.requests) = 1

(* C11 as amended: an operation that succeeds has submitted exactly one     *)
(* remote request, except query_cortex_with_data with a data_query and      *)
(* test_cortex_connection, which have submitted exactly two, one after      *)
(* the other; an operation that fails has submitted no more than that.      *)
C11_RoundTripsPerOperation ==
    last.op \in RoundTripOps =>
        LET n == IF TwoStatements THEN 2 ELSE 1
        IN  /\ Len(R.requests) <= n
            /\ Succeeded => Len(R.requests) = n

C11_Witness ==
    /\ last.op = "test_cortex_connection"
    /\ Succeeded
    /\ Len(R.requests) = 2
    /\ R.requests[1].sess = R.requests[2].sess

---------------------------------------------------------------------------
(* C13: get_dashboard_kpi on a connected Dashboard Session with a           *)
(* registered name executes that name's template once; when the statement   *)
(* succeeds it returns the first row the remote returned as a mapping, or   *)
(* the empty mapping when the remote returned no row, and does not fail.    *)
C13_KpiFirstRowOrEmpty ==
    (/\ last.op = "get_dashboard_kpi"
     /\ WasOpen(last.pre.dashboard_conn)
     /\ last.args.kpi_name \in Registry) =>
        /\ Len(R.requests) = 1
        /\ R.requests[1].kind = "execute"
        /\ R.requests[1].sess = last.pre.dashboard_conn
        /\ R.requests[1].stmt = queries[last.args.kpi_name]
        /\ R.requests[1].resp.ok =>
               /\ R.outcome = "return"
               /\ R.type = "mapping"
               /\ R.rows = IF RemoteReturned = <<>> THEN <<>> ELSE <<RemoteReturned[1]>>

C13_Witness ==
    /\ last.op = "get_dashboard_kpi"
    /\ WasOpen(last.pre.dashboard_conn)
    /\ last.args.kpi_name = "portfolio_overview"
    /\ R.requests[1].resp.ok
    /\ RemoteReturned = <<>>
    /\ R.outcome = "return"
    /\ R.rows = <<>>

C13_WitnessFirstOfTwo ==
    /\ last.op = "get_dashboard_kpi"
    /\ Len(R.requests) = 1
    /\ RemoteReturned = <<2, 1>>
    /\ R.rows = <<2>>

---------------------------------------------------------------------------
\* requests of the call that went to session `sess`
On(sess) == {i \in 1..Len(R.requests) : R.requests[i].sess = sess}

\* the user turn of a completion statement built for `question`
Completion(question) ==
    CompleteSql(last.args.model, DefaultPersona, question)

\* the block of text the method appends for the rows it fetched
Appended(rows) ==
    <<"\n\nHere is the relevant data:\n", "[">>
        \o [i \in 1..Len(rows) |-> ToString(rows[i])] \o <<"]">>

(* C14: query_cortex_with_data with both Sessions connected.  With a        *)
(* data_query (a non-empty string): data_query is executed on the           *)
(* Dashboard Session exactly once and first; if it fails nothing is sent    *)
(* to the Assistant Session; if it succeeds the completion request, with    *)
(* the rows appended to the question, follows on the Assistant Session.     *)
(* Without one (None or empty): nothing is executed on the Dashboard        *)
(* Session and the question reaches the completion request unchanged.       *)
C14_DataBeforeCompletion ==
    (/\ last.op = "query_cortex_with_data"
     /\ WasOpen(last.pre.dashboard_conn)
     /\ WasOpen(last.pre.cortex_conn)) =>
        LET d == last.pre.dashboard_conn
            c == last.pre.cortex_conn
        IN  IF Truthy(last.args.data_query)
            THEN /\ Cardinality(On(d)) = 1
                 /\ R.requests[1].sess = d
                 /\ R.requests[1].kind = "execute"
                 /\ R.requests[1].stmt = last.args.data_query
                 /\ ~R.requests[1].resp.ok => On(c) = {}
                 /\ R.requests[1].resp.ok =>
                        /\ On(c) = {2}
                        /\ R.requests[2].stmt =
                               Completion(last.args.user_question
                                              \o Appended(R.requests[1].resp.rows))
            ELSE /\ On(d) = {}
                 /\ On(c) = {1}
                 /\ R.requests[1].stmt = Completion(last.args.user_question)

C14_Witness ==
    /\ last.op = "query_cortex_with_data"
    /\ Truthy(last.args.data_query)
    /\ Len(R.requests) = 2
    /\ R.requests[1].sess = last.pre.dashboard_conn
    /\ R.requests[1].resp.rows = <<1>>
    /\ R.requests[2].sess = last.pre.cortex_conn
    /\ R.outcome = "return"

C14_WitnessDataFailed ==
    /\ last.op = "query_cortex_with_data"
    /\ Len(R.requests) = 1
    /\ R.requests[1].sess = last.pre.dashboard_conn
    /\ ~R.requests[1].resp.ok

---------------------------------------------------------------------------
DashboardConnects == {"connect_dashboard_sso", "connect_dashboard_keypair"}

(* C16: a connect that fails (PAT format, key load, remote rejection)       *)
(* leaves both slots and every session as they were, so a Session stored    *)
(* earlier is still stored and still usable; a slot differs from what the   *)
(* call found only after a successful connect for that slot's own role.     *)
C16_FailedConnectKeepsSlots ==
    /\ (last.op \in ConnectOps /\ R.outcome = "raise") =>
           /\ SlotsUnchanged
           /\ sessRole = last.pre.sessRole
    /\ dashboard_conn # last.pre.dashboard_conn =>
           last.op \in DashboardConnects /\ R.outcome = "return"
    /\ cortex_conn # last.pre.cortex_conn =>
           last.op = "connect_cortex_pat" /\ R.outcome = "return"

C16_Witness ==
    /\ last.op = "connect_dashboard_keypair"
    /\ Raised("AuthRejected")
    /\ WasOpen(last.pre.dashboard_conn)
    /\ dashboard_conn = last.pre.dashboard_conn
    /\ sessState[dashboard_conn] = "open"

---------------------------------------------------------------------------
\* the slot of the role that session i was opened for
SlotOfSession(i) ==
    IF sessRole[i] = "dashboard" THEN dashboard_conn ELSE cortex_conn

(* C17: every session that has been opened and not closed is the one its    *)
(* role's slot refers to, so that after a close_all no session is open.     *)
C17_OpenSessionsAreReferenced ==
    /\ \A i \in SessionIds : sessState[i] = "open" => SlotOfSession(i) = i
    /\ last.op = "close_all" => \A i \in SessionIds : sessState[i] # "open"

(* C18: every cursor a query or test operation opened is closed when the    *)
(* operation ends, however it ends.                                        *)
C18_CursorsClosed ==
    last.op \in (QueryOps \cup TestOps) => R.cursorsClosed = R.cursorsOpened

---------------------------------------------------------------------------
(* C15: a close_all invoked with both Sessions connected has closed the     *)
(* Assistant Session when it ends, also when closing the Dashboard          *)
(* Session failed.                                                         *)
C15_CloseAllClosesAssistant ==
    (/\ last.op = "close_all"
     /\ WasOpen(last.pre.dashboard_conn)
     /\ WasOpen(last.pre.cortex_conn)) =>
        sessState[last.pre.cortex_conn] = "closed"


\* the facade after one whole method call made on it alone, with the call's result
Alone(t, d, s) ==
    LET slot == IF t = "D" THEN s.dc ELSE s.cc
        res == RunMethod(d, slot, s.st, NewId(t))
        took == IsConnect(d) /\ res.outcome = "return"
    IN  [res |-> res,
         s |-> [dc |-> IF took /\ t = "D" THEN NewId(t) ELSE s.dc,
                cc |-> IF took /\ t = "A" THEN NewId(t) ELSE s.cc,
                st |-> IF took THEN [s.st EXCEPT ![NewId(t)] = "open"] ELSE s.st]]

\* the two calls made one after the other, `first` thread's call first
InOrder(first) ==
    LET one == Alone(first, thr[first].d, thr.s0)
        two == Alone(Other(first), thr[Other(first)].d, one.s)
    IN  [res |-> [t \in Threads |-> IF t = first THEN one.res ELSE two.res],
         s |-> two.s]

BothDone == thr # NoThreads /\ thr.D.pc = "done" /\ thr.A.pc = "done"

SameAsInOrder(first) ==
    /\ thr.D.res = InOrder(first).res["D"]
    /\ thr.A.res = InOrder(first).res["A"]
    /\ dashboard_conn = InOrder(first).s.dc
    /\ cortex_conn = InOrder(first).s.cc
    /\ sessState = InOrder(first).s.st

\* C12: a Dashboard-only method and an Assistant-only method run in two
\* threads give, under every interleaving of their steps, the results and the
\* final slots that running them one after the other gives, in either order.
C12_InterleavingIsSequential ==
    BothDone => SameAsInOrder("D") /\ SameAsInOrder("A")

\* both threads finished after their steps interleaved, the Dashboard thread
\* having connected and the Assistant thread having queried its open session
C12_Witness ==
    /\ BothDone
    /\ thr.interleaved
    /\ thr.D.d.op = "connect_dashboard_sso"
    /\ thr.D.res.outcome = "return"
    /\ dashboard_conn = Sid.d_new
    /\ thr.A.d.op = "query_cortex"
    /\ thr.A.res.outcome = "return"
    /\ Len(thr.A.res.requests) = 1
====
